---- MODULE Spec2Model ----
(***************************************************************************)
(* Model of src/svca.py: split_data (the four-way partition with           *)
(* training-mean centering) and svca (the cross-validated decomposition,   *)
(* modelled on the shapes of its arrays).                                  *)
(*                                                                         *)
(* Real numbers are exact rationals.  A bin edge is a numerator over the   *)
(* common denominator of the bin width; a centered matrix is a matrix of   *)
(* integer numerators over one denominator (the number of training rows).  *)
(* An optional argument is <<>> (None) or <<v>>.  Indices are 1-based      *)
(* here and 0-based in the source.                                         *)
(***************************************************************************)
EXTENDS Integers, Sequences, FiniteSets, TLC

VARIABLES X, position, rng, pc, call, quad, dec

vars == <<X, position, rng, pc, call, quad, dec>>

\* ------------------------------------------------------------- bounds
MaxT == 4
MaxN == 3
MaxDim == 3

\* ------------------------------------------------- program constants
\* default of neuron_bins
DefaultNeuronBins == 16

\* --------------------------------------------------------- input sets
None == <<>>
\* coordinates a feature may have
PosValues == {0, 1, 2}
BinWidths == {None, <<1>>, <<2>>}
NeuronBinsSet == {2, DefaultNeuronBins}
TimeBinsSet == {1, 2}
Seeds == {None, <<0>>}
\* states of numpy's global generator (abstracted to a small cycle)
RngStates == 0 .. 1

\* ------------------------------------------------------- arithmetic
Min(a, b) == IF a <= b THEN a ELSE b

CeilDiv(a, b) == IF a <= 0 THEN 0 ELSE (a + b - 1) \div b

RECURSIVE Fact(_)
Fact(n) == IF n <= 1 THEN 1 ELSE n * Fact(n - 1)

RECURSIVE SumSeq(_)
SumSeq(s) == IF Len(s) = 0 THEN 0 ELSE s[1] + SumSeq(Tail(s))

SeqMax(s) == CHOOSE m \in {s[i] : i \in 1 .. Len(s)} : \A i \in 1 .. Len(s) : s[i] <= m

SeqMin(s) == CHOOSE m \in {s[i] : i \in 1 .. Len(s)} : \A i \in 1 .. Len(s) : m <= s[i]

RemoveAt(s, i) == SubSeq(s, 1, i - 1) \o SubSeq(s, i + 1, Len(s))

\* indices of the TRUE entries of a boolean mask, in increasing order
RECURSIVE MaskIdx(_, _)
MaskIdx(mask, k) ==
  IF k > Len(mask) THEN <<>>
  ELSE (IF mask[k] THEN <<k>> ELSE <<>>) \o MaskIdx(mask, k + 1)

\* ------------------------------------------------------------ matrices
\* A matrix of exact rationals: entry (r, c) is num[r][c] / den.
Mat(rows, cols, den, num) == [rows |-> rows, cols |-> cols, den |-> den, num |-> num]

EmptyMat == Mat(0, 0, 1, <<>>)

\* A[rowMask][:, colMask] for a 2-D integer array A (boolean-mask indexing,
\* which keeps the selected rows and columns in their order and copies)
MaskSelect(A, rowMask, colMask) ==
  LET ri == MaskIdx(rowMask, 1)
      ci == MaskIdx(colMask, 1)
  IN  Mat(Len(ri), Len(ci), 1,
          [r \in 1 .. Len(ri) |-> [c \in 1 .. Len(ci) |-> A[ri[r]][ci[c]]]])

\* M.mean(0, keepdims=True): the column sums over the number of rows
ColMean(M) ==
  [num |-> [c \in 1 .. M.cols |-> SumSeq([r \in 1 .. M.rows |-> M.num[r][c]])],
   den |-> M.rows * M.den]

\* M -= mu, for an integer matrix M (den = 1) and a row of column means
Subtract(M, mu) ==
  Mat(M.rows, M.cols, mu.den,
      [r \in 1 .. M.rows |-> [c \in 1 .. M.cols |-> M.num[r][c] * mu.den - mu.num[c]]])

\* ------------------------------------------------------ numpy routines
\* the k-th permutation of items (Lehmer code)
RECURSIVE Unrank(_, _)
Unrank(k, items) ==
  IF Len(items) = 0 THEN <<>>
  ELSE LET f == Fact(Len(items) - 1)
           i == (k \div f) + 1
       IN  <<items[i]>> \o Unrank(k % f, RemoveAt(items, i))

\* np.random.permutation(col) with the global generator in state g: a
\* permuted copy that the state alone determines
permutation(g, col) ==
  LET n == Len(col)
      p == Unrank(g % Fact(n), [t \in 1 .. n |-> t])
  IN  [t \in 1 .. n |-> col[p[t]]]

\* the global generator after one draw
NextRng(g) == (g + 1) % Cardinality(RngStates)

\* the loop of split_data over the columns: column i is replaced, in X
\* itself, by a permutation drawn from the GLOBAL generator (the generator
\* rng = RandomState(seed) is created and never used)
ShuffleColumns(A, g) ==
  LET n == Len(A[1])
      st(i) == (g + i - 1) % Cardinality(RngStates)
      col(i) == [t \in 1 .. Len(A) |-> A[t][i]]
  IN  [t \in 1 .. Len(A) |-> [i \in 1 .. n |-> permutation(st(i), col(i))[t]]]

\* np.arange(start, stop, step) on numerators over one denominator
arange(start, stop, step) ==
  [k \in 1 .. CeilDiv(stop - start, step) |-> start + (k - 1) * step]

\* np.digitize(x, bins) for increasing bins: i with bins[i-1] <= x < bins[i]
digitize(x, bins) == Cardinality({k \in 1 .. Len(bins) : bins[k] <= x})

\* np.round: round half to even, of the quotient a / b
RoundHalfEven(a, b) ==
  LET q == a \div b
      r == a % b
  IN  IF 2 * r < b THEN q
      ELSE IF 2 * r > b THEN q + 1
      ELSE IF q % 2 = 0 THEN q ELSE q + 1

\* ---------------------------------------------------------- split_data
\* bin_width as a rational [num, den]: the argument, or the position range
\* divided by neuron_bins
bin_width_drop(bw, pos, neuron_bins) ==
  [num |-> SeqMax(pos) - SeqMin(pos), den |-> neuron_bins]

bin_width(bw, pos, neuron_bins) ==
  IF bw = None
  THEN [num |-> SeqMax(pos) - SeqMin(pos), den |-> neuron_bins]
  ELSE [num |-> bw[1], den |-> 1]

\* bins = np.arange(position.min(), position.max() + bin_width, bin_width),
\* as numerators over width.den
bins(pos, width) ==
  arange(SeqMin(pos) * width.den,
         SeqMax(pos) * width.den + width.num,
         width.num)

\* neuron_id = np.digitize(position, bins) % 2 == 0
neuron_id_odd(pos, edges, den) ==
  [i \in 1 .. Len(pos) |-> digitize(pos[i] * den, edges) % 2 = 1]

neuron_id(pos, edges, den) ==
  [i \in 1 .. Len(pos) |-> digitize(pos[i] * den, edges) % 2 = 0]

\* ~neuron_id
not_neuron_id_same(nid) == nid

not_neuron_id(nid) == [i \in 1 .. Len(nid) |-> ~nid[i]]

\* split_id: time_bins zeros, then time_bins ones
split_id(time_bins) == [k \in 1 .. 2 * time_bins |-> IF k <= time_bins THEN 0 ELSE 1]

\* n_reps = np.round(time_steps / (2 * time_bins)) + 1
n_reps_round_only(time_steps, time_bins) == RoundHalfEven(time_steps, 2 * time_bins)

n_reps(time_steps, time_bins) == RoundHalfEven(time_steps, 2 * time_bins) + 1

\* time_id = np.tile(split_id, n_reps)[:time_steps]
time_id(time_steps, time_bins) ==
  LET sid == split_id(time_bins)
      len == Len(sid) * n_reps(time_steps, time_bins)
  IN  [k \in 1 .. Min(time_steps, len) |-> sid[((k - 1) % Len(sid)) + 1]]

\* the centered test half: test -= train.mean(0)
center_test_own_mean(train, test) == Subtract(test, ColMean(test))

center_test(train, test) == Subtract(test, ColMean(train))

EmptyQuad == [Ftrain |-> EmptyMat, Ftest |-> EmptyMat, Gtrain |-> EmptyMat, Gtest |-> EmptyMat]

NoLocals ==
  [bin_width |-> [num |-> 0, den |-> 1], bins |-> <<>>, neuron_id |-> <<>>,
   time_id |-> <<>>, mu_F |-> [num |-> <<>>, den |-> 1], mu_G |-> [num |-> <<>>, den |-> 1]]

\* What one call of split_data does with the global generator in state g:
\* the caller's X afterwards, the generator afterwards, the steps taken in
\* order (warnings included), the exception raised ("none" if it returns),
\* the locals, and the returned quadruplet.
split_data(X0, pos, bw, neuron_bins, time_bins, shuffle, seed, g) ==
  LET time_steps == Len(X0)
      neurons == Len(X0[1])
      X1 == IF shuffle THEN ShuffleColumns(X0, g) ELSE X0
      g1 == IF shuffle THEN (g + neurons) % Cardinality(RngStates) ELSE g
      width == bin_width(bw, pos, neuron_bins)
      s1 == (IF shuffle THEN <<"shuffle">> ELSE <<>>)
            \o (IF bw # None THEN <<"warn_bin_width">> ELSE <<>>)
            \o (IF ~shuffle /\ seed # None THEN <<"warn_seed">> ELSE <<>>)
      edges == bins(pos, width)
      nid == neuron_id(pos, edges, width.den)
      tid == time_id(time_steps, time_bins)
      loc == [NoLocals EXCEPT !.bin_width = width]
      loc2 == [loc EXCEPT !.bins = edges, !.neuron_id = nid, !.time_id = tid]
      train == [t \in 1 .. Len(tid) |-> tid[t] = 0]
      test == [t \in 1 .. Len(tid) |-> tid[t] = 1]
      Ftrain == MaskSelect(X1, train, nid)
      Ftest == MaskSelect(X1, test, nid)
      Gtrain == MaskSelect(X1, train, not_neuron_id(nid))
      Gtest == MaskSelect(X1, test, not_neuron_id(nid))
      mu_F == ColMean(Ftrain)
      mu_G == ColMean(Gtrain)
  IN  IF width.num = 0
      THEN \* np.arange with a zero step
           [X |-> X1, rng |-> g1, steps |-> s1, raised |-> "ArangeError",
            locals |-> loc, result |-> EmptyQuad]
      ELSE IF Len(tid) # time_steps \/ Len(nid) # neurons
      THEN \* a boolean index whose length is not the axis length
           [X |-> X1, rng |-> g1, steps |-> s1 \o <<"bins", "digitize", "time_id">>,
            raised |-> "IndexError", locals |-> loc2, result |-> EmptyQuad]
      ELSE [X |-> X1, rng |-> g1,
            steps |-> s1 \o <<"bins", "digitize", "time_id", "slice", "center">>,
            raised |-> "none",
            locals |-> [loc2 EXCEPT !.mu_F = mu_F, !.mu_G = mu_G],
            result |-> [Ftrain |-> Subtract(Ftrain, mu_F),
                        Ftest |-> center_test(Ftrain, Ftest),
                        Gtrain |-> Subtract(Gtrain, mu_G),
                        Gtest |-> center_test(Gtrain, Gtest)]]

\* ---------------------------------------------------------------- svca
\* svca is modelled on the shapes of its arrays: a shape is [rows, cols].
Shape(r, c) == [rows |-> r, cols |-> c]

BadShape == Shape(-1, -1)

ShapeOf(M) == Shape(M.rows, M.cols)

Transpose(a) == IF a = BadShape THEN BadShape ELSE Shape(a.cols, a.rows)

\* a @ b
MatMul(a, b) ==
  IF a = BadShape \/ b = BadShape \/ a.cols # b.rows THEN BadShape
  ELSE Shape(a.rows, b.cols)

\* a + b for two 2-D arrays, with numpy's broadcasting
Add(a, b) ==
  LET ok(m, n) == m = n \/ m = 1 \/ n = 1
      dim(m, n) == IF m = 1 THEN n ELSE m
  IN  IF a = BadShape \/ b = BadShape \/ ~ok(a.rows, b.rows) \/ ~ok(a.cols, b.cols)
      THEN BadShape
      ELSE Shape(dim(a.rows, b.rows), dim(a.cols, b.cols))

\* len(np.diag(a)); -1 for a bad shape
DiagLen(a) == IF a = BadShape THEN -1 ELSE Min(a.rows, a.cols)

\* a[:, :n] and a[:n]
FirstCols(a, n) == Shape(a.rows, Min(n, a.cols))

FirstRows(a, n) == Shape(Min(n, a.rows), a.cols)

\* the four assertions at the head of svca
ShapeAsserts(Ftrain, Ftest, Gtrain, Gtest) ==
  /\ Ftrain.cols = Ftest.cols
  /\ Gtrain.cols = Gtest.cols
  /\ Ftrain.rows = Gtrain.rows
  /\ Ftest.rows = Gtest.rows

\* n_dims when it is None
default_n_dims_max(Ftrain, Gtrain) ==
  IF Ftrain.cols >= Gtrain.cols THEN Ftrain.cols ELSE Gtrain.cols

default_n_dims(Ftrain, Gtrain) == Min(Ftrain.cols, Gtrain.cols)

NoOut == [reliable_variance |-> 0, all_variance |-> 0, SVC1 |-> Shape(0, 0), SVC2 |-> Shape(0, 0)]

\* What one call of svca does: the steps taken after the assertions, the
\* exception raised ("none" if it returns), and the shapes returned.
svca(Ftrain, Ftest, Gtrain, Gtest, n_dims_arg) ==
  LET n_dims == IF n_dims_arg = None THEN default_n_dims(Ftrain, Gtrain) ELSE n_dims_arg[1]
      Ctrain == MatMul(Transpose(Ftrain), Gtrain)
      Ctest == MatMul(Transpose(Ftest), Gtest)
      U == Shape(Ctrain.rows, Ctrain.rows)
      Vh == Shape(Ctrain.cols, Ctrain.cols)
      C_F == MatMul(Transpose(Ftest), Ftest)
      C_G == MatMul(Transpose(Gtest), Gtest)
      Uk == FirstCols(U, n_dims)
      Vk == FirstRows(Vh, n_dims)
      S_hat == MatMul(MatMul(Transpose(Uk), Ctest), Transpose(Vk))
      S_F == MatMul(MatMul(Transpose(Uk), C_F), Uk)
      S_G == MatMul(MatMul(Vk, C_G), Transpose(Vk))
      sum == Add(S_F, S_G)
      SVC1 == MatMul(Ftest, Uk)
      SVC2 == MatMul(Gtest, Transpose(Vk))
  IN  IF ~ShapeAsserts(Ftrain, Ftest, Gtrain, Gtest)
      THEN [steps |-> <<>>, raised |-> "AssertionError", n_dims |-> 0, out |-> NoOut]
      ELSE IF BadShape \in {Ctrain, Ctest, C_F, C_G, S_hat, S_F, S_G, sum, SVC1, SVC2}
      THEN [steps |-> <<"covariance", "svd">>, raised |-> "ValueError",
            n_dims |-> n_dims, out |-> NoOut]
      ELSE [steps |-> <<"covariance", "svd", "project">>, raised |-> "none",
            n_dims |-> n_dims,
            out |-> [reliable_variance |-> DiagLen(S_hat), all_variance |-> DiagLen(sum),
                     SVC1 |-> SVC1, SVC2 |-> SVC2]]

\* ------------------------------------------------------- state machine
\* The caller's data matrix: feature j over time t is j*(t-1)^2 + (j-1)
\* (columns of different scale and offset, rows all different).
Data(T, N) == [t \in 1 .. T |-> [j \in 1 .. N |-> j * (t - 1) * (t - 1) + (j - 1)]]

Positions == UNION {[1 .. L -> PosValues] : L \in 1 .. MaxN}

Dims == 1 .. MaxDim

\* Four matrices for svca: Ftrain is Ttrain x NF and Gtrain is Ttrain x NG
\* up to one extra row, Ftest is Ttest x NF up to one extra column, Gtest
\* is Ttest x NG up to one extra row and column; every combination of
\* svca's four shape preconditions holding or failing occurs.
Quads ==
  {[Ftrain |-> Shape(Ttrain, NF), Ftest |-> Shape(Ttest, NF + a),
    Gtrain |-> Shape(Ttrain + b, NG), Gtest |-> Shape(Ttest + c, NG + d)] :
     <<Ttrain, Ttest, NF, NG, a, b, c, d>> \in
       Dims \X Dims \X Dims \X Dims \X {0, 1} \X {0, 1} \X {0, 1} \X {0, 1}}

NoCall ==
  [X0 |-> <<>>, position0 |-> <<>>, bin_width |-> None, neuron_bins |-> 0,
   time_bins |-> 0, shuffle |-> FALSE, seed |-> None, rng0 |-> 0,
   out |-> [X |-> <<>>, rng |-> 0, steps |-> <<>>, raised |-> "none",
            locals |-> NoLocals, result |-> EmptyQuad]]

NoQuad == [Ftrain |-> Shape(0, 0), Ftest |-> Shape(0, 0), Gtrain |-> Shape(0, 0), Gtest |-> Shape(0, 0)]

NoDec == [n_dims_arg |-> None, out |-> [steps |-> <<>>, raised |-> "none", n_dims |-> 0, out |-> NoOut]]

\* a program about to call split_data on its data matrix and a position
\* vector (one entry per feature, or one too few or too many); the global
\* generator is in whatever state earlier draws left it
InitSplit ==
  /\ \E T \in 1 .. MaxT, N \in 1 .. MaxN :
       /\ X = Data(T, N)
       /\ position \in {p \in Positions : Len(p) \in {N - 1, N, N + 1}}
  /\ rng \in RngStates
  /\ pc = "split_data"
  /\ call = NoCall
  /\ quad = NoQuad
  /\ dec = NoDec

\* a program about to call svca on four matrices it holds
InitSvca ==
  /\ X = <<>>
  /\ position = <<>>
  /\ rng = 0
  /\ pc = "svca"
  /\ call = NoCall
  /\ quad \in Quads
  /\ dec = NoDec

Init == InitSplit \/ InitSvca

\* some other code of the process draws from numpy's global generator
RandomDraw ==
  /\ pc = "split_data"
  /\ rng' = NextRng(rng)
  /\ UNCHANGED <<X, position, pc, call, quad, dec>>

\* split_data(X, position, bin_width, neuron_bins, time_bins, shuffle, seed)
SplitData ==
  /\ pc = "split_data"
  /\ \E bw \in BinWidths, nb \in NeuronBinsSet, tb \in TimeBinsSet,
        sh \in BOOLEAN, sd \in Seeds :
       LET out == split_data(X, position, bw, nb, tb, sh, sd, rng)
       IN  /\ call' = [X0 |-> X, position0 |-> position, bin_width |-> bw,
                       neuron_bins |-> nb, time_bins |-> tb, shuffle |-> sh,
                       seed |-> sd, rng0 |-> rng, out |-> out]
           /\ X' = call'.out.X
           /\ rng' = call'.out.rng
  /\ pc' = "done"
  /\ UNCHANGED <<position, quad, dec>>

\* svca(Ftrain, Ftest, Gtrain, Gtest, n_dims)
Svca ==
  /\ pc = "svca"
  /\ \E nd \in {None} \cup {<<n>> : n \in Dims} :
       dec' = [n_dims_arg |-> nd,
               out |-> svca(quad.Ftrain, quad.Ftest, quad.Gtrain, quad.Gtest, nd)]
  /\ pc' = "done"
  /\ UNCHANGED <<X, position, rng, call, quad>>

Next == RandomDraw \/ SplitData \/ Svca

Spec == Init /\ [][Next]_vars

\* ------------------------------------------------- vocabulary of claims
SplitCalled == pc = "done" /\ call # NoCall

SplitReturned == SplitCalled /\ call.out.raised = "none"

SvcaCalled == pc = "done" /\ dec # NoDec

Res == call.out.result

Loc == call.out.locals

TimeSteps == Len(call.X0)

Neurons == Len(call.X0[1])

\* split_data's arguments are well-formed: one position per feature and a
\* positive bin width
ValidSplitArgs ==
  /\ Len(call.position0) = Neurons
  /\ (call.bin_width = None => SeqMax(call.position0) # SeqMin(call.position0))

\* observation t (1-based) lies in a block of even parity
InTrainBlock(t) == (((t - 1) \div call.time_bins) % 2) = 0

\* the r-th observation (1-based) of the even blocks, and of the odd blocks
TrainRow(r) ==
  2 * call.time_bins * ((r - 1) \div call.time_bins) + ((r - 1) % call.time_bins) + 1

TestRow(r) == TrainRow(r) + call.time_bins

NumTrain == Cardinality({t \in 1 .. TimeSteps : InTrainBlock(t)})

NumTest == Cardinality({t \in 1 .. TimeSteps : ~InTrainBlock(t)})

\* 1-based index of the bin [min + (k-1)*w, min + k*w) that holds feature i
BinIndex(i) ==
  LET w == Loc.bin_width
  IN  (((call.position0[i] - SeqMin(call.position0)) * w.den) \div w.num) + 1

\* Column c of a returned group (train, test, centered by mu) is feature j
\* of the caller's X as it is after the call: every observation agrees.
IsFeature(train, test, mu, c, j) ==
  /\ \A r \in 1 .. train.rows :
       train.num[r][c] + mu.num[c] = X[TrainRow(r)][j] * train.den
  /\ \A r \in 1 .. test.rows :
       test.num[r][c] + mu.num[c] = X[TestRow(r)][j] * test.den

FeaturesOf(train, test, mu) ==
  {j \in 1 .. Neurons : \E c \in 1 .. train.cols : IsFeature(train, test, mu, c, j)}

FeaturesF == FeaturesOf(Res.Ftrain, Res.Ftest, Loc.mu_F)

FeaturesG == FeaturesOf(Res.Gtrain, Res.Gtest, Loc.mu_G)

\* sum over the training observations of feature j of X (after the call)
TrainSum(j) == SumSeq([r \in 1 .. NumTrain |-> X[TrainRow(r)][j]])

TestSum(j) == SumSeq([r \in 1 .. NumTest |-> X[TestRow(r)][j]])

\* ------------------------------------------------------------------ C1
\* C1: the quadruplet split_data returns has groups F and G over disjoint
\* feature sets that together are all N features, train/test pairs agree
\* on rows and columns, and svca's four shape assertions accept it.
C1_PartitionShapes ==
  SplitReturned =>
    /\ \A F \in {FeaturesF}, G \in {FeaturesG} :
         /\ F \cap G = {}
         /\ F \cup G = 1 .. Neurons
         /\ Cardinality(F) = Res.Ftrain.cols
         /\ Cardinality(G) = Res.Gtrain.cols
    /\ Res.Ftrain.rows = Res.Gtrain.rows
    /\ Res.Ftest.rows = Res.Gtest.rows
    /\ Res.Ftrain.cols = Res.Ftest.cols
    /\ Res.Gtrain.cols = Res.Gtest.cols
    /\ svca(ShapeOf(Res.Ftrain), ShapeOf(Res.Ftest), ShapeOf(Res.Gtrain),
            ShapeOf(Res.Gtest), None).raised # "AssertionError"

C1_Witness ==
  /\ SplitReturned
  /\ Res.Ftrain.cols >= 1
  /\ Res.Gtrain.cols >= 1
  /\ Res.Ftest.rows >= 1
  /\ Neurons = MaxN

\* ------------------------------------------------------------------ C2
\* C2: observation t goes to train iff floor(t / time_bins) is even; the
\* tiled pattern covers all T observations, each lands in exactly one of
\* train and test, and the rows keep their order.
C2_TimeBlocks ==
  /\ (SplitCalled /\ call.out.raised # "ArangeError") =>
       /\ Len(Loc.time_id) = TimeSteps
       /\ \A t \in 1 .. TimeSteps : (Loc.time_id[t] = 0) <=> InTrainBlock(t)
       /\ \A t \in 1 .. TimeSteps : (Loc.time_id[t] = 1) <=> ~InTrainBlock(t)
  /\ (SplitCalled /\ ValidSplitArgs) => SplitReturned
  /\ SplitReturned =>
       LET cols == MaskIdx(Loc.neuron_id, 1)
       IN  /\ Res.Ftrain.rows + Res.Ftest.rows = TimeSteps
           /\ Res.Ftrain.rows = NumTrain
           /\ Res.Ftest.rows = NumTest
           /\ \A r \in 1 .. NumTrain : TrainRow(r) <= TimeSteps /\ InTrainBlock(TrainRow(r))
           /\ \A r \in 1 .. NumTest : TestRow(r) <= TimeSteps /\ ~InTrainBlock(TestRow(r))
           /\ \A c \in 1 .. Res.Ftrain.cols : IsFeature(Res.Ftrain, Res.Ftest, Loc.mu_F, c, cols[c])

C2_Witness ==
  /\ SplitReturned
  /\ Res.Ftrain.cols >= 1
  /\ Res.Ftrain.rows >= 2
  /\ Res.Ftest.rows >= 2
  /\ 2 * call.time_bins < TimeSteps

\* ------------------------------------------------------------------ C3
\* C3 (as amended): a feature is in group F iff the 1-based index of the
\* bin holding its position (np.digitize's index: the first bin is 1) is
\* even, in G iff it is odd; a feature at the minimum position is in G.
C3_GroupByBinParity ==
  SplitReturned =>
    \A F \in {FeaturesF}, G \in {FeaturesG} :
      \A i \in 1 .. Neurons :
        /\ (i \in F) <=> (BinIndex(i) % 2 = 0)
        /\ (i \in G) <=> (BinIndex(i) % 2 = 1)
        /\ call.position0[i] = SeqMin(call.position0) => (i \in G /\ i \notin F)

C3_Witness ==
  /\ SplitReturned
  /\ FeaturesF # {}
  /\ \E i \in FeaturesG : BinIndex(i) >= 3
  /\ \E i \in FeaturesG : call.position0[i] = SeqMin(call.position0)

\* C3 (as stated): F iff the bin index is even with the first bin, the one
\* that holds the minimum position, counted as even, so that a feature at
\* the minimum position is in F.
C3_Original ==
  SplitReturned =>
    \A F \in {FeaturesF} :
      \A i \in 1 .. Neurons :
        /\ (i \in F) <=> ((BinIndex(i) - 1) % 2 = 0)
        /\ call.position0[i] = SeqMin(call.position0) => i \in F

\* ------------------------------------------------------------------ C4
\* C4: every column of Ftrain is the raw train rows minus their own mean
\* (column sum zero) and every column of Ftest is the raw test rows minus
\* that train mean; likewise Gtrain and Gtest with the Gtrain mean.
CenteredByTrainMean(train, test, feats) ==
  /\ train.den > 0
  /\ test.den > 0
  /\ \A n \in {NumTrain} : \A c \in 1 .. train.cols : \A sum \in {TrainSum(feats[c])} :
       /\ SumSeq([r \in 1 .. train.rows |-> train.num[r][c]]) = 0
       /\ \A r \in 1 .. train.rows :
            train.num[r][c] * n = train.den * (X[TrainRow(r)][feats[c]] * n - sum)
       /\ \A r \in 1 .. test.rows :
            test.num[r][c] * n = test.den * (X[TestRow(r)][feats[c]] * n - sum)

C4_TrainMeanCentering ==
  SplitReturned =>
    /\ CenteredByTrainMean(Res.Ftrain, Res.Ftest, MaskIdx(Loc.neuron_id, 1))
    /\ CenteredByTrainMean(Res.Gtrain, Res.Gtest,
                           MaskIdx([i \in 1 .. Neurons |-> ~Loc.neuron_id[i]], 1))

\* a returned call where, in both groups, the train mean differs from the
\* test mean and from the whole-column mean
C4_Witness ==
  /\ SplitReturned
  /\ Res.Ftest.rows >= 1
  /\ \E f \in FeaturesF, h \in FeaturesG :
       \A j \in {f, h} :
         /\ TrainSum(j) * NumTest # TestSum(j) * NumTrain
         /\ TrainSum(j) * TimeSteps # (TrainSum(j) + TestSum(j)) * NumTrain

\* ------------------------------------------------------------------ C5
\* C5: with shuffle=True and an integer seed the quadruplet depends on the
\* arguments only: whatever state the global generator is in, the same
\* X, position and arguments give the same quadruplet.
C5_SeededShuffleDeterministic ==
  (SplitCalled /\ call.shuffle /\ call.seed # None) =>
    \A g \in RngStates :
      split_data(call.X0, call.position0, call.bin_width, call.neuron_bins,
                 call.time_bins, call.shuffle, call.seed, g).result = Res

\* ------------------------------------------------------------------ C6
\* C6: after any call of split_data the caller's X and position hold the
\* values they held before the call.
C6_InputsUntouched ==
  SplitCalled => (X = call.X0 /\ position = call.position0)

\* ------------------------------------------------------------------ C7
\* C7: svca with a shape precondition violated raises before computing
\* anything and returns nothing; split_data with a position vector whose
\* length is not the feature count raises at its start, before any
\* shuffle, warning, slicing or modification of X, and returns nothing.
C7_FailFast ==
  /\ (SvcaCalled /\ ~ShapeAsserts(quad.Ftrain, quad.Ftest, quad.Gtrain, quad.Gtest)) =>
       /\ dec.out.raised = "AssertionError"
       /\ dec.out.steps = <<>>
       /\ dec.out.out = NoOut
  /\ (SplitCalled /\ Len(call.position0) # Neurons) =>
       /\ call.out.raised # "none"
       /\ call.out.steps = <<>>
       /\ X = call.X0
       /\ Res = EmptyQuad

\* ------------------------------------------------------------------ C8
\* C8: (i) with bin_width set, a warning is emitted and the outcome is the
\* one of the call with neuron_bins left at its default, whatever
\* neuron_bins is; (ii) with shuffle=False and a seed, a warning is emitted
\* and the quadruplet is the one of the call without the seed; neither
\* warning makes a well-formed call raise.
InSeq(x, s) == \E k \in 1 .. Len(s) : s[k] = x

C8_WarningsNonFatal ==
  /\ (SplitCalled /\ call.bin_width # None) =>
       /\ InSeq("warn_bin_width", call.out.steps)
       /\ call.neuron_bins # DefaultNeuronBins =>
            call.out = split_data(call.X0, call.position0, call.bin_width, DefaultNeuronBins,
                                  call.time_bins, call.shuffle, call.seed, call.rng0)
       /\ (Len(call.position0) = Neurons => call.out.raised = "none")
  /\ (SplitCalled /\ ~call.shuffle /\ call.seed # None) =>
       \A plain \in {split_data(call.X0, call.position0, call.bin_width, call.neuron_bins,
                                call.time_bins, call.shuffle, None, call.rng0)} :
         /\ InSeq("warn_seed", call.out.steps)
         /\ ~InSeq("warn_seed", plain.steps)
         /\ call.out.result = plain.result
         /\ call.out.raised = plain.raised
         /\ (ValidSplitArgs => call.out.raised = "none")
  /\ (SplitCalled /\ call.bin_width = None) => ~InSeq("warn_bin_width", call.out.steps)

\* both warnings in one returned call, with neuron_bins not the default and
\* features in both groups
C8_Witness ==
  /\ SplitReturned
  /\ call.bin_width # None
  /\ call.neuron_bins # DefaultNeuronBins
  /\ ~call.shuffle
  /\ call.seed # None
  /\ Res.Ftrain.cols >= 1
  /\ Res.Gtrain.cols >= 1
  /\ SeqMax(call.position0) # SeqMin(call.position0)

\* ------------------------------------------------------------------ C9
\* C9: for inputs that satisfy the four shape preconditions and n_dims in
\* 1 .. min(N_F, N_G), or omitted (then n_dims = min(N_F, N_G)): SVC1 has
\* Ftest's rows, SVC2 has Gtest's rows, both have n_dims columns, and both
\* variance vectors have length n_dims.
C9_OutputShapes ==
  LET m == Min(quad.Ftrain.cols, quad.Gtrain.cols)
      n == IF dec.n_dims_arg = None THEN m ELSE dec.n_dims_arg[1]
  IN  (SvcaCalled /\ ShapeAsserts(quad.Ftrain, quad.Ftest, quad.Gtrain, quad.Gtest)
                  /\ 1 <= n /\ n <= m) =>
        /\ dec.out.raised = "none"
        /\ dec.out.n_dims = n
        /\ dec.out.out.SVC1 = Shape(quad.Ftest.rows, n)
        /\ dec.out.out.SVC2 = Shape(quad.Gtest.rows, n)
        /\ dec.out.out.reliable_variance = n
        /\ dec.out.out.all_variance = n

\* n_dims omitted, groups of different sizes, more than one dimension kept
C9_Witness ==
  /\ SvcaCalled
  /\ dec.out.raised = "none"
  /\ dec.n_dims_arg = None
  /\ quad.Ftrain.cols > quad.Gtrain.cols
  /\ quad.Gtrain.cols >= 2
  /\ quad.Ftest.rows # quad.Ftrain.rows

\* ----------------------------------------------------------------- C10
\* C10: with bin_width omitted the position range is cut into exactly
\* neuron_bins bins of width (max - min) / neuron_bins, and every feature,
\* those at the minimum and at the maximum included, gets a bin index among
\* those neuron_bins bins.
C10_ExactlyNeuronBins ==
  (SplitReturned /\ call.bin_width = None) =>
    /\ Loc.bin_width = [num |-> SeqMax(call.position0) - SeqMin(call.position0),
                        den |-> call.neuron_bins]
    /\ \A i \in 1 .. Neurons :
         digitize(call.position0[i] * Loc.bin_width.den, Loc.bins) \in 1 .. call.neuron_bins

====
